---- MODULE Spec2Model ----
(***************************************************************************)
(* Order / payment consistency core of order-service-backend.              *)
(*                                                                         *)
(* The Postgres tables are sets of rows; every SQL statement is one atomic *)
(* step, and every await between two statements is a point where other     *)
(* requests interleave.  Each request handler is a one-shot slot with a    *)
(* program counter; a webhook slot also carries the deferred retries of    *)
(* its delivery and takes the next delivery once that one is over.         *)
(* Any SQL statement may throw a transient error.                          *)
(* The write-only timestamp columns (updated_at, paid_at, processed_at)    *)
(* are not part of the rows.                                               *)
(***************************************************************************)
EXTENDS Integers, Sequences, FiniteSets, TLC

(* ------------------------------ bounds --------------------------------- *)
MaxCreate == 2
MaxUpdate == 2
MaxDetailUpdate == 1
MaxGet == 2
MaxTicks == 2
MaxDeliveries == 2
MaxInit == 2
MaxList == 2
MaxCancel == 2
FrameDeliveries == 1

(* ------------------------- program constants --------------------------- *)
DetailTtlMs == 30000
DefaultPageLimit == 10
ToleranceSec == 300
maxRetries == 3
PaymentTtlMs == 1800000
DigestLen == 64
defaultTTL == 300000

(* ------------------------------ inputs --------------------------------- *)
Users == {1, 2, 3}
Tokens == {"tok-1", "tok-2"}
ItemLists ==
  { << [sku |-> "A1", quantity |-> 2, price |-> 500] >>,
    << [sku |-> "B2", quantity |-> 1, price |-> 0],
       [sku |-> "A1", quantity |-> 1, price |-> 300] >> }
UpdateStatuses == {"PAID", "CANCELLED"}
VersionInputs ==
  {[given |-> FALSE, value |-> 0]} \cup {[given |-> TRUE, value |-> v] : v \in 0..1}
OrderIdInputs == 1..2
OrderTickSteps == {20000}
ListStatuses == {"", "PENDING", "PAID"}
SearchInputs == {"", "A1", "B2"}
PageInputs == {1, 2}
LimitInputs == {1, DefaultPageLimit}
Undefined == "undefined"
Null == "null"
HookSlots == {1}
ReplaySlots == {1, 2}
event(paymentId, orderId, status, transactionId) ==
  [payment_id |-> paymentId, order_id |-> orderId, status |-> status,
   transaction_id |-> transactionId,
   failure_reason |-> IF status = "FAILED" THEN "declined" ELSE Undefined]
EventInputs ==
  {event(1, 1, "SUCCESS", "t1"), event(1, 1, "SUCCESS", Undefined),
   event(1, 1, "FAILED", "t2"), event(3, 1, "SUCCESS", "t1")}

\* bodies for payment 1 with its own order_id, another order's, and none
BodyOrderInputs ==
  {event(1, 1, "SUCCESS", "t1"), event(1, 2, "SUCCESS", "t1"), event(1, 0, "SUCCESS", "t1")}

\* bodies whose status is any non-empty string the provider may send
StatusInputs ==
  {event(1, 1, "SUCCESS", "t1"), event(1, 1, "REFUNDED", "t1"), event(1, 1, "paid", "t1")}

\* a failed charge and a successful one for payment 1
PayableInputs == {event(1, 1, "FAILED", "t2"), event(1, 1, "SUCCESS", "t1")}

\* the body of the deliveries followed through their retries, and the time an
\* awaited statement may take before the caller resumes (ms)
BackoffInputs == {event(1, 1, "SUCCESS", "t1")}
AwaitTickSteps == {7}

VARIABLES
  orders,             \* table orders: set of rows
  orderSeq,           \* last value handed out by the SERIAL sequence of orders.id
  ordersCreatedTotal, \* global.ordersCreatedTotal
  cache,              \* cacheService.cache: key -> [value, expiry]
  orderCache,         \* global.orderCache: keys of the ad-hoc map (never populated)
  now,                \* Date.now() in ms
  ticks,              \* number of clock advances so far
  creates,            \* POST /orders requests
  updates,            \* PATCH /orders/:id/status requests
  gets,               \* GET /orders/:id requests
  updLog,             \* history: <<id, version>> returned by each UPDATE, in commit order
  payments,           \* table payments: set of rows
  retryLog,           \* table webhook_retry_log: sequence of rows, in insertion order
  hooks,              \* POST /payments/webhook deliveries and their deferred retries
  deliveries,         \* number of webhook requests received so far
  inits,              \* POST /payments/initiate requests
  lists,              \* the GET /orders request being served
  listed,             \* number of GET /orders requests received so far
  cancels,            \* POST /payments/:payment_id/cancel requests
  cacheCall,          \* the last direct call of a CacheService method and its result
  uncleaned,          \* history: the cache map had cleanup() never run
  lastSet,            \* history: key -> the arguments and time of its latest set()
  readAt              \* history: the time of the store read behind the row of each
                      \* GET /orders/:id request (req) and of each cache entry (entry)

payVars == << payments, retryLog, hooks, deliveries >>

auxVars == << inits, lists, listed, cancels, cacheCall, uncleaned, lastSet, readAt >>

vars == << orders, orderSeq, ordersCreatedTotal, cache, orderCache, now, ticks,
           creates, updates, gets, updLog, payVars, auxVars >>

(* ------------------------------ helpers -------------------------------- *)
NoRow == [id |-> 0]
NoResp == [code |-> 0, body |-> NoRow]

role(u) == IF u = 1 THEN "ADMIN" ELSE "USER"

RECURSIVE SumItems(_, _)
SumItems(items, i) ==
  IF i > Len(items) THEN 0
  ELSE items[i].price * items[i].quantity + SumItems(items, i + 1)

\* mutant: the sum of the unit prices, quantities ignored
totalAmount_prices(items) ==
  IF Len(items) = 0 THEN 0
  ELSE IF Len(items) = 1 THEN items[1].price
  ELSE items[1].price + items[2].price

\* items.reduce((sum, item) => sum + item.price * item.quantity, 0)
totalAmount(items) == SumItems(items, 1)

mapRowToOrder(row) ==
  [id |-> row.id, user_id |-> row.user_id, items |-> row.items,
   status |-> row.status, client_token |-> row.client_token,
   total_amount |-> row.total_amount, version |-> row.version,
   created_at |-> row.created_at]

newOrderRow(id, userId, items, clientToken, t) ==
  [id |-> id, user_id |-> userId, client_token |-> clientToken,
   status |-> "PENDING", total_amount |-> totalAmount(items), items |-> items,
   version |-> 1, created_at |-> t]

byToken(tok) == {o \in orders : o.client_token = tok}
byId(id) == {o \in orders : o.id = id}

\* text fragments of items::text that a search string can hit
itemsText(items) ==
  {"sku", "quantity", "price"} \cup {items[i].sku : i \in 1..Len(items)}

\* mutant: the user_id condition left out of the WHERE clause
whereOrders_all(userId, r, status, searchSku) ==
  {o \in orders :
     /\ status # "" => o.status = status
     /\ searchSku # "" => searchSku \in itemsText(o.items)}

whereOrders(userId, r, status, searchSku) ==
  {o \in orders :
     /\ (r # "ADMIN" /\ userId # 0) => o.user_id = userId
     /\ status # "" => o.status = status
     /\ searchSku # "" => searchSku \in itemsText(o.items)}

\* ORDER BY created_at DESC: every arrangement the sort key allows
orderedByCreatedDesc(S) ==
  {s \in [1..Cardinality(S) -> S] :
     /\ \A i, j \in 1..Cardinality(S) : i # j => s[i] # s[j]
     /\ \A i, j \in 1..Cardinality(S) : i < j => s[i].created_at >= s[j].created_at}

pageOf(s, page, limit) ==
  LET offset == (page - 1) * limit
      last == IF offset + limit < Len(s) THEN offset + limit ELSE Len(s)
  IN [i \in 1..(IF last > offset THEN last - offset ELSE 0) |-> mapRowToOrder(s[offset + i])]

\* the set of results getOrders can return on the current table
getOrders(userId, r, status, searchSku, page, limit) ==
  LET M == whereOrders(userId, r, status, searchSku)
  IN {[orders |-> pageOf(s, page, limit), total |-> Cardinality(M)] :
        s \in orderedByCreatedDesc(M)}

getOrderById(orderId, userId, r) ==
  IF r # "ADMIN" /\ userId # 0
  THEN {o \in orders : o.id = orderId /\ o.user_id = userId}
  ELSE {o \in orders : o.id = orderId}

(* ------------------------------ cache ---------------------------------- *)
\* mutant: the cache key without the viewer scope
cacheKey_shared(id, u) == << id, 0 >>

cacheKey(id, u) == << id, IF role(u) = "ADMIN" THEN 0 ELSE u >>

\* expiry = Date.now() + (ttlMs || this.defaultTTL): a ttl of 0 counts as none given
CacheService_set(c, key, value, ttlMs, t) ==
  [k \in DOMAIN c \cup {key} |->
     IF k = key
     THEN [value |-> value, expiry |-> t + (IF ttlMs = 0 THEN defaultTTL ELSE ttlMs)]
     ELSE c[k]]

CacheService_delete(c, key) == [k \in DOMAIN c \ {key} |-> c[k]]

\* mutant: an entry counts as live whatever its expiry
CacheService_hit_stale(c, key, t) == key \in DOMAIN c

CacheService_hit(c, key, t) == key \in DOMAIN c /\ ~(t > c[key].expiry)

\* the map after get(key): an expired entry is purged
CacheService_get(c, key, t) ==
  IF key \in DOMAIN c /\ t > c[key].expiry THEN CacheService_delete(c, key) ELSE c

\* mutant: cleanup also drops the entries that expire within the next 30 s
CacheService_cleanup_eager(c, t) ==
  [k \in {x \in DOMAIN c : ~(t + DetailTtlMs > c[x].expiry)} |-> c[k]]

\* cleanup(): delete every entry with now > expiry
CacheService_cleanup(c, t) == [k \in {x \in DOMAIN c : ~(t > c[x].expiry)} |-> c[k]]

\* mutant: the counter is bumped in the route as well as in the service
incrementOrdersCreated_twice(n) == n + 2

incrementOrdersCreated(n) == n + 1

\* delete global.orderCache[orderId]
invalidateOrderCache(oc, orderId) == oc \ {orderId}

(* ------------------------------- Init ---------------------------------- *)
IdleCreate == [pc |-> "idle", user |-> 0, items |-> << >>, token |-> "",
               row |-> NoRow, resp |-> NoResp, faulted |-> FALSE]
IdleUpdate == [pc |-> "idle", id |-> 0, status |-> "",
               version |-> [given |-> FALSE, value |-> 0],
               row |-> NoRow, resp |-> NoResp]
IdleGet == [pc |-> "idle", user |-> 0, id |-> 0, row |-> NoRow, resp |-> NoResp]

IdleHook ==
  [pc |-> "idle", event |-> [payment_id |-> 0], attempt |-> 0, due |-> 0, code |-> 0,
   threw |-> FALSE, bad |-> FALSE, wrote |-> FALSE]

IdleInit == [pc |-> "idle", user |-> 0, order_id |-> 0, order |-> NoRow, code |-> 0,
             payment_id |-> 0]
\* prev is history: the listing answered just before, when that was page 1 of
\* the listing this request asks page 2 of (page 0: none)
IdleList == [pc |-> "idle", user |-> 0, status |-> "", q |-> "", page |-> 0, limit |-> 0,
             total |-> 0, code |-> 0, orders |-> << >>,
             prev |-> [user |-> 0, status |-> "", q |-> "", page |-> 0, limit |-> 0,
                       orders |-> << >>]]

IdleCancel == [pc |-> "idle", user |-> 0, payment_id |-> 0, code |-> 0]

NoAux ==
  /\ inits = [r \in 1..MaxInit |-> IdleInit]
  /\ lists = IdleList
  /\ listed = 0
  /\ cancels = [r \in 1..MaxCancel |-> IdleCancel]
  /\ cacheCall = [op |-> "", key |-> "", result |-> Null]
  /\ uncleaned = << >>
  /\ lastSet = << >>
  /\ readAt = [req |-> [r \in 1..MaxGet |-> 0], entry |-> << >>]

NoPayments ==
  /\ payments = {}
  /\ retryLog = << >>
  /\ hooks = [j \in HookSlots |-> IdleHook]
  /\ deliveries = 0
  /\ NoAux

Init ==
  /\ orders = {}
  /\ orderSeq = 0
  /\ ordersCreatedTotal = 0
  /\ cache = << >>
  /\ orderCache = {}
  /\ now = 0
  /\ ticks = 0
  /\ creates = [r \in 1..MaxCreate |-> IdleCreate]
  /\ updates = [r \in 1..MaxUpdate |-> IdleUpdate]
  /\ gets = [r \in 1..MaxGet |-> IdleGet]
  /\ updLog = << >>
  /\ NoPayments

(* --------------------------- POST /orders ------------------------------ *)
finishCreate(r, code, body) ==
  creates' = [creates EXCEPT ![r].pc = "done", ![r].resp = [code |-> code, body |-> body]]

\* mutant: createOrder without the lookup by client_token
createOrder_select_nolookup(r, u, items, tok) ==
  /\ creates[r].pc = "idle"
  /\ r > 1 => creates[r - 1].pc # "idle"
  /\ creates' = [creates EXCEPT ![r] =
       [pc |-> "insert", user |-> u, items |-> items, token |-> tok,
        row |-> NoRow, resp |-> NoResp, faulted |-> FALSE]]
  /\ UNCHANGED << orders, orderSeq, ordersCreatedTotal, cache, orderCache, now, ticks,
                  updates, gets, updLog, payVars, auxVars >>

\* request arrives, validation passed, SELECT ... WHERE client_token executes
createOrder_select(r, u, items, tok) ==
  /\ creates[r].pc = "idle"
  /\ r > 1 => creates[r - 1].pc # "idle"
  /\ \/ \E o \in byToken(tok) :
          creates' = [creates EXCEPT ![r] =
             [pc |-> "done", user |-> u, items |-> items, token |-> tok, row |-> o,
              resp |-> [code |-> 201, body |-> mapRowToOrder(o)], faulted |-> FALSE]]
     \/ /\ byToken(tok) = {}
        /\ creates' = [creates EXCEPT ![r] =
             [pc |-> "insert", user |-> u, items |-> items, token |-> tok,
              row |-> NoRow, resp |-> NoResp, faulted |-> FALSE]]
     \/ creates' = [creates EXCEPT ![r] =
             [pc |-> "done", user |-> u, items |-> items, token |-> tok, row |-> NoRow,
              resp |-> [code |-> 500, body |-> NoRow], faulted |-> TRUE]]
  /\ UNCHANGED << orders, orderSeq, ordersCreatedTotal, cache, orderCache, now, ticks,
                  updates, gets, updLog, payVars, auxVars >>

\* mutant: the INSERT on a table without the UNIQUE constraint on client_token
createOrder_insert_nounique(r) ==
  /\ creates[r].pc = "insert"
  /\ orderSeq' = orderSeq + 1
  /\ LET row == newOrderRow(orderSeq + 1, creates[r].user, creates[r].items,
                            creates[r].token, now)
     IN /\ orders' = orders \cup {row}
        /\ creates' = [creates EXCEPT ![r].pc = "inserted", ![r].row = row]
  /\ UNCHANGED << ordersCreatedTotal, cache, orderCache, now, ticks, updates, gets, updLog, payVars, auxVars >>

\* INSERT INTO orders ... RETURNING *; the UNIQUE constraint on client_token decides
createOrder_insert(r) ==
  /\ creates[r].pc = "insert"
  /\ orderSeq' = orderSeq + 1
  /\ IF byToken(creates[r].token) # {}
     THEN /\ creates' = [creates EXCEPT ![r].pc = "recover"]
          /\ UNCHANGED orders
     ELSE LET row == newOrderRow(orderSeq + 1, creates[r].user, creates[r].items,
                                 creates[r].token, now)
          IN /\ orders' = orders \cup {row}
             /\ creates' = [creates EXCEPT ![r].pc = "inserted", ![r].row = row]
  /\ UNCHANGED << ordersCreatedTotal, cache, orderCache, now, ticks, updates, gets, updLog, payVars, auxVars >>

\* the INSERT resolved: count the order, answer 201
createOrder_return(r) ==
  /\ creates[r].pc = "inserted"
  /\ ordersCreatedTotal' = incrementOrdersCreated(ordersCreatedTotal)
  /\ finishCreate(r, 201, mapRowToOrder(creates[r].row))
  /\ UNCHANGED << orders, orderSeq, cache, orderCache, now, ticks, updates, gets, updLog, payVars, auxVars >>

\* router catch on 'duplicate key ... client_token': look the order up in the
\* caller's first page of getOrders
createOrder_recover(r) ==
  /\ creates[r].pc = "recover"
  /\ \E res \in getOrders(creates[r].user, role(creates[r].user), "", "", 1, DefaultPageLimit) :
       LET hits == {i \in 1..Len(res.orders) : res.orders[i].client_token = creates[r].token}
       IN IF hits # {}
          THEN finishCreate(r, 200, res.orders[CHOOSE i \in hits : \A j \in hits : i <= j])
          ELSE finishCreate(r, 500, NoRow)
  /\ UNCHANGED << orders, orderSeq, ordersCreatedTotal, cache, orderCache, now, ticks,
                  updates, gets, updLog, payVars, auxVars >>

\* a statement of createOrder or of the recovery lookup throws a storage error
createOrder_fail(r) ==
  /\ creates[r].pc \in {"insert", "recover"}
  /\ creates' = [creates EXCEPT ![r].pc = "done", ![r].faulted = TRUE,
                                 ![r].resp = [code |-> 500, body |-> NoRow]]
  /\ UNCHANGED << orders, orderSeq, ordersCreatedTotal, cache, orderCache, now, ticks,
                  updates, gets, updLog, payVars, auxVars >>

(* ---------------------- PATCH /orders/:id/status ----------------------- *)
finishUpdate(r, code, body) ==
  updates' = [updates EXCEPT ![r].pc = "done", ![r].resp = [code |-> code, body |-> body]]

\* currentVersion && currentOrder.version !== currentVersion
versionConflict(row, version) ==
  version.given /\ version.value # 0 /\ row.version # version.value

\* SELECT * FROM orders WHERE id, then the version comparison
updateOrderStatus_read(r, id, st, version) ==
  /\ updates[r].pc = "idle"
  /\ r > 1 => updates[r - 1].pc # "idle"
  /\ LET started == [updates[r] EXCEPT !.id = id, !.status = st, !.version = version]
     IN \/ IF byId(id) = {}
           THEN updates' = [updates EXCEPT ![r] =
                  [started EXCEPT !.pc = "done", !.resp = [code |-> 404, body |-> NoRow]]]
           ELSE \E o \in byId(id) :
                  IF versionConflict(o, version)
                  THEN updates' = [updates EXCEPT ![r] =
                         [started EXCEPT !.pc = "done", !.resp = [code |-> 409, body |-> NoRow]]]
                  ELSE updates' = [updates EXCEPT ![r] = [started EXCEPT !.pc = "write"]]
        \/ updates' = [updates EXCEPT ![r] =
                  [started EXCEPT !.pc = "done", !.resp = [code |-> 500, body |-> NoRow]]]
  /\ UNCHANGED << orders, orderSeq, ordersCreatedTotal, cache, orderCache, now, ticks,
                  creates, gets, updLog, payVars, auxVars >>

\* UPDATE orders SET status, version = version + 1 WHERE id RETURNING *
\* mutant: SET status only, the version increment forgotten
updatedRow_noincrement(o, st) == [o EXCEPT !.status = st]

updatedRow(o, st) ==
  [o EXCEPT !.status = st, !.version = o.version + 1]

updateOrderStatus_write(r) ==
  /\ updates[r].pc = "write"
  /\ \E o \in byId(updates[r].id) :
       LET row == updatedRow(o, updates[r].status)
       IN /\ orders' = (orders \ {o}) \cup {row}
          /\ updates' = [updates EXCEPT ![r].pc = "written", ![r].row = row]
          /\ updLog' = Append(updLog, << row.id, row.version >>)
  /\ UNCHANGED << orderSeq, ordersCreatedTotal, cache, orderCache, now, ticks, creates, gets, payVars, auxVars >>

\* the UPDATE resolved: invalidate, answer 200 with the fresh row
updateOrderStatus_return(r) ==
  /\ updates[r].pc = "written"
  /\ orderCache' = invalidateOrderCache(orderCache, updates[r].id)
  /\ finishUpdate(r, 200, mapRowToOrder(updates[r].row))
  /\ UNCHANGED << orders, orderSeq, ordersCreatedTotal, cache, now, ticks, creates, gets,
                  updLog, payVars, auxVars >>

\* the UPDATE throws a storage error
updateOrderStatus_fail(r) ==
  /\ updates[r].pc = "write"
  /\ finishUpdate(r, 500, NoRow)
  /\ UNCHANGED << orders, orderSeq, ordersCreatedTotal, cache, orderCache, now, ticks,
                  creates, gets, updLog, payVars, auxVars >>

(* -------------------------- GET /orders/:id ---------------------------- *)
finishGet(r, code, body) ==
  gets' = [gets EXCEPT ![r].pc = "done", ![r].resp = [code |-> code, body |-> body]]

\* cacheService.get(cacheKey): a live entry answers the request
getOrder_cache(r, u, id) ==
  /\ gets[r].pc = "idle"
  /\ r > 1 => gets[r - 1].pc # "idle"
  /\ cache' = CacheService_get(cache, cacheKey(id, u), now)
  /\ IF CacheService_hit(cache, cacheKey(id, u), now)
     THEN /\ gets' = [gets EXCEPT ![r] =
                 [pc |-> "done", user |-> u, id |-> id, row |-> NoRow,
                  resp |-> [code |-> 200, body |-> cache[cacheKey(id, u)].value]]]
          /\ readAt' = [readAt EXCEPT !.req[r] = readAt.entry[cacheKey(id, u)]]
     ELSE /\ gets' = [gets EXCEPT ![r] =
                 [pc |-> "query", user |-> u, id |-> id, row |-> NoRow, resp |-> NoResp]]
          /\ UNCHANGED readAt
  /\ UNCHANGED << orders, orderSeq, ordersCreatedTotal, orderCache, now, ticks,
                  creates, updates, updLog, payVars, inits, lists, listed, cancels,
                  cacheCall, uncleaned, lastSet >>

\* orderService.getOrderById executes its SELECT
getOrder_query(r) ==
  /\ gets[r].pc = "query"
  /\ LET found == getOrderById(gets[r].id, gets[r].user, role(gets[r].user))
     IN IF found = {}
        THEN gets' = [gets EXCEPT ![r].pc = "fetched", ![r].row = NoRow]
        ELSE \E o \in found :
               gets' = [gets EXCEPT ![r].pc = "fetched", ![r].row = mapRowToOrder(o)]
  /\ readAt' = [readAt EXCEPT !.req[r] = now]
  /\ UNCHANGED << orders, orderSeq, ordersCreatedTotal, cache, orderCache, now, ticks,
                  creates, updates, updLog, payVars, inits, lists, listed, cancels,
                  cacheCall, uncleaned, lastSet >>

\* the SELECT resolved: cache a found order for 30 s and answer
getOrder_return(r) ==
  /\ gets[r].pc = "fetched"
  /\ IF gets[r].row # NoRow
     THEN /\ cache' = CacheService_set(cache, cacheKey(gets[r].id, gets[r].user),
                                       gets[r].row, DetailTtlMs, now)
          /\ readAt' = [readAt EXCEPT !.entry =
                          [k \in DOMAIN @ \cup {cacheKey(gets[r].id, gets[r].user)} |->
                             IF k = cacheKey(gets[r].id, gets[r].user)
                             THEN readAt.req[r] ELSE @[k]]]
          /\ finishGet(r, 200, gets[r].row)
     ELSE /\ UNCHANGED << cache, readAt >>
          /\ finishGet(r, 404, NoRow)
  /\ UNCHANGED << orders, orderSeq, ordersCreatedTotal, orderCache, now, ticks,
                  creates, updates, updLog, payVars, inits, lists, listed, cancels,
                  cacheCall, uncleaned, lastSet >>

\* the SELECT throws a storage error
getOrder_fail(r) ==
  /\ gets[r].pc = "query"
  /\ finishGet(r, 500, NoRow)
  /\ UNCHANGED << orders, orderSeq, ordersCreatedTotal, cache, orderCache, now, ticks,
                  creates, updates, updLog, payVars, auxVars >>

(* ------------------- CacheService, called directly --------------------- *)
\* set(key, value, ttlMs)
cache_set(k, v, ttlMs) ==
  /\ cache' = CacheService_set(cache, k, v, ttlMs, now)
  /\ uncleaned' = CacheService_set(uncleaned, k, v, ttlMs, now)
  /\ lastSet' = [x \in DOMAIN lastSet \cup {k} |->
                   IF x = k THEN [value |-> v, ttl |-> ttlMs, at |-> now] ELSE lastSet[x]]
  /\ cacheCall' = [op |-> "set", key |-> k, result |-> Null]
  /\ UNCHANGED << orders, orderSeq, ordersCreatedTotal, orderCache, now, ticks, creates,
                  updates, gets, updLog, payVars, inits, lists, listed, cancels, readAt >>

\* get(key): the value of a live entry, null otherwise; an expired entry is deleted
cache_get(k) ==
  /\ cache' = CacheService_get(cache, k, now)
  /\ uncleaned' = CacheService_get(uncleaned, k, now)
  /\ cacheCall' = [op |-> "get", key |-> k,
                   result |-> IF CacheService_hit(cache, k, now) THEN cache[k].value
                              ELSE Null]
  /\ UNCHANGED << orders, orderSeq, ordersCreatedTotal, orderCache, now, ticks, creates,
                  updates, gets, updLog, payVars, inits, lists, listed, cancels, lastSet,
                  readAt >>

\* has(key): whether a live entry exists; an expired entry is deleted
cache_has(k) ==
  /\ cache' = CacheService_get(cache, k, now)
  /\ uncleaned' = CacheService_get(uncleaned, k, now)
  /\ cacheCall' = [op |-> "has", key |-> k,
                   result |-> IF CacheService_hit(cache, k, now) THEN "true" ELSE "false"]
  /\ UNCHANGED << orders, orderSeq, ordersCreatedTotal, orderCache, now, ticks, creates,
                  updates, gets, updLog, payVars, inits, lists, listed, cancels, lastSet,
                  readAt >>

\* delete(key): whether the map held the key, expired or not
cache_delete(k) ==
  /\ cache' = CacheService_delete(cache, k)
  /\ uncleaned' = CacheService_delete(uncleaned, k)
  /\ lastSet' = [x \in DOMAIN lastSet \ {k} |-> lastSet[x]]
  /\ cacheCall' = [op |-> "delete", key |-> k,
                   result |-> IF k \in DOMAIN cache THEN "true" ELSE "false"]
  /\ UNCHANGED << orders, orderSeq, ordersCreatedTotal, orderCache, now, ticks, creates,
                  updates, gets, updLog, payVars, inits, lists, listed, cancels, readAt >>

\* the setInterval callback: cacheService.cleanup()
cache_cleanup ==
  /\ cache' = CacheService_cleanup(cache, now)
  /\ cacheCall' = [op |-> "cleanup", key |-> "", result |-> Null]
  /\ UNCHANGED << orders, orderSeq, ordersCreatedTotal, orderCache, now, ticks, creates,
                  updates, gets, updLog, payVars, inits, lists, listed, cancels, uncleaned,
                  lastSet, readAt >>

(* ------------------------------- clock --------------------------------- *)
Tick(steps) ==
  /\ ticks < MaxTicks
  /\ \E d \in steps : now' = now + d
  /\ ticks' = ticks + 1
  /\ UNCHANGED << orders, orderSeq, ordersCreatedTotal, cache, orderCache,
                  creates, updates, gets, updLog, payVars, auxVars >>

(* ---------------------- POST /payments/webhook ------------------------- *)
Secret == "webhook-secret"

\* HMAC-SHA256 as a symbolic digest: equal exactly for equal key and message
Hmac(key, msg) == [key |-> key, msg |-> msg]

\* the X-Webhook-Timestamp values a sender can put on a request at time t
TsInputs(t) ==
  {[kind |-> "absent", sec |-> 0], [kind |-> "junk", sec |-> 0]}
    \cup {[kind |-> "int", sec |-> (t \div 1000) + d] :
            d \in {0 - ToleranceSec - 1, 0, ToleranceSec, ToleranceSec + 1}}

\* the X-Webhook-Signature values a sender can put on a request
SigInputs(ts, body) ==
  {[kind |-> "absent", prefix |-> FALSE, digest |-> Hmac("", << ts, body >>), len |-> 0],
   [kind |-> "hex", prefix |-> TRUE, digest |-> Hmac(Secret, << ts, body >>), len |-> DigestLen],
   [kind |-> "hex", prefix |-> FALSE, digest |-> Hmac(Secret, << ts, body >>), len |-> DigestLen],
   [kind |-> "hex", prefix |-> TRUE, digest |-> Hmac("guess", << ts, body >>), len |-> DigestLen],
   [kind |-> "hex", prefix |-> TRUE,
    digest |-> Hmac(Secret, << ts, [body EXCEPT !.status = "TAMPERED"] >>), len |-> DigestLen],
   [kind |-> "hex", prefix |-> TRUE, digest |-> Hmac(Secret, << ts, body >>),
    len |-> DigestLen - 1]}

\* Math.abs(currentTime - parseInt(timestamp)) > 300; every comparison with NaN is false
timestampTooOld(ts, t) ==
  LET currentTime == t \div 1000
      diff == IF currentTime >= ts.sec THEN currentTime - ts.sec ELSE ts.sec - currentTime
  IN ts.kind = "int" /\ diff > ToleranceSec

\* mutant: the route without the signature comparison
webhookGate_nosignature(sig, ts, body, t) ==
  IF sig.kind = "absent" \/ ts.kind = "absent" THEN 400
  ELSE IF timestampTooOld(ts, t) THEN 400
  ELSE IF body.payment_id = 0 \/ body.status = "" THEN 400
  ELSE 0

\* the response code of the route's gates; 0 when the request passes all of them
webhookGate(sig, ts, body, t) ==
  IF sig.kind = "absent" \/ ts.kind = "absent" THEN 400
  ELSE IF timestampTooOld(ts, t) THEN 400
  ELSE IF sig.len # DigestLen THEN 500
  ELSE IF sig.digest # Hmac(Secret, << ts, body >>) THEN 401
  ELSE IF body.payment_id = 0 \/ body.status = "" THEN 400
  ELSE 0

\* x || null
orNull(x) == IF x = Undefined \/ x = "" THEN Null ELSE x

paymentById(pid) == {q \in payments : q.payment_id = pid}

\* status !== PENDING && transaction_id === transactionId
alreadyProcessed(q, e) == q.status # "PENDING" /\ q.transaction_id = e.transaction_id

\* UPDATE payments SET status, transaction_id, failure_reason WHERE payment_id
paymentsUpdated(e) ==
  {IF q.payment_id = e.payment_id
   THEN [q EXCEPT !.status = e.status, !.transaction_id = orNull(e.transaction_id),
                  !.failure_reason = orNull(e.failure_reason)]
   ELSE q : q \in payments}

\* mutant: the order update also resets the amount
ordersPaid_retotal(orderId) ==
  {IF o.id = orderId THEN [o EXCEPT !.status = "PAID", !.total_amount = 0] ELSE o :
     o \in orders}

\* UPDATE orders SET status = 'PAID' WHERE id = orderId
ordersPaid(orderId) ==
  {IF o.id = orderId THEN [o EXCEPT !.status = "PAID"] ELSE o : o \in orders}

\* UPDATE payments SET status = 'CANCELLED' WHERE status = 'PENDING' AND expires_at < now
cleanupExpiredPayments(t) ==
  {IF q.status = "PENDING" /\ q.expires_at < t
   THEN [q EXCEPT !.status = "CANCELLED", !.failure_reason = "Payment expired"]
   ELSE q : q \in payments}

\* UPDATE payments SET status = 'FAILED' WHERE payment_id (dead letter)
paymentsDeadLettered(pid) ==
  {IF q.payment_id = pid
   THEN [q EXCEPT !.status = "FAILED",
                  !.failure_reason = "Webhook processing failed after maximum retries"]
   ELSE q : q \in payments}

\* mutant: a delay growing linearly with the attempt
backoffMs_linear(attempt) == attempt * 1000

\* Math.pow(2, attempt) * 1000
backoffMs(attempt) == (2 ^ attempt) * 1000

retryRecord(e, attempt, final, retryAt) ==
  [payment_id |-> e.payment_id, order_id |-> e.order_id, attempt_number |-> attempt,
   final_failure |-> final, retry_at |-> retryAt]

hookUnchanged == UNCHANGED << orderSeq, ordersCreatedTotal, cache, orderCache, ticks,
                              creates, updates, gets, updLog, deliveries, auxVars >>

\* apply returned without throwing; on the first attempt the route answers 200
returned(j) == [hooks[j] EXCEPT !.pc = "done", !.code = 200]

\* a statement of apply threw: control is in the catch block
caught(j) == [hooks[j] EXCEPT !.pc = "caught"]

\* a slot is free before its first request and after its request is over
hookFree(j) == hooks[j].pc \in {"idle", "done"}

\* the request arrives and passes through the header, timestamp and signature gates
webhook_receive(j, sig, ts, body) ==
  /\ hookFree(j)
  /\ \A k \in DOMAIN hooks : k < j => ~hookFree(k)
  /\ deliveries < MaxDeliveries
  /\ deliveries' = deliveries + 1
  /\ LET code == webhookGate(sig, ts, body, now)
         isBad == \/ sig.kind = "absent" \/ ts.kind = "absent"
                  \/ (ts.kind = "int" /\ (ts.sec - (now \div 1000) > ToleranceSec
                                          \/ (now \div 1000) - ts.sec > ToleranceSec))
                  \/ sig.len # DigestLen
                  \/ sig.digest # Hmac(Secret, << ts, body >>)
     IN IF code # 0
        THEN hooks' = [hooks EXCEPT ![j] =
               [IdleHook EXCEPT !.pc = "done", !.code = code, !.bad = isBad]]
        ELSE hooks' = [hooks EXCEPT ![j] =
               [IdleHook EXCEPT !.pc = "select", !.event = body, !.attempt = 1,
                                !.bad = isBad]]
  /\ UNCHANGED << orders, orderSeq, ordersCreatedTotal, cache, orderCache, now, ticks,
                  creates, updates, gets, updLog, payments, retryLog, auxVars >>

\* SELECT ... FROM payments WHERE payment_id, then the idempotency check
processWebhook_select(j) ==
  /\ hooks[j].pc = "select"
  /\ \/ hooks' = [hooks EXCEPT ![j] = caught(j)]
     \/ /\ paymentById(hooks[j].event.payment_id) = {}
        /\ hooks' = [hooks EXCEPT ![j] = caught(j)]
     \/ \E q \in paymentById(hooks[j].event.payment_id) :
          IF alreadyProcessed(q, hooks[j].event)
          THEN hooks' = [hooks EXCEPT ![j] = returned(j)]
          ELSE hooks' = [hooks EXCEPT ![j].pc = "update"]
  /\ UNCHANGED << orders, now, payments, retryLog >>
  /\ hookUnchanged

\* mutant: the order update follows the payment update whatever the status
processWebhook_update_anystatus(j) ==
  /\ hooks[j].pc = "update"
  /\ \/ /\ hooks' = [hooks EXCEPT ![j] = caught(j)]
        /\ UNCHANGED payments
     \/ /\ payments' = paymentsUpdated(hooks[j].event)
        /\ hooks' = [hooks EXCEPT ![j].wrote = TRUE, ![j].pc = "order"]
  /\ UNCHANGED << orders, now, retryLog >>
  /\ hookUnchanged

\* UPDATE payments SET status, transaction_id, failure_reason
processWebhook_update(j) ==
  /\ hooks[j].pc = "update"
  /\ \/ /\ hooks' = [hooks EXCEPT ![j] = caught(j)]
        /\ UNCHANGED payments
     \/ /\ payments' = paymentsUpdated(hooks[j].event)
        /\ hooks' = [hooks EXCEPT ![j].wrote = TRUE,
                       ![j].pc = IF hooks[j].event.status = "SUCCESS" THEN "order" ELSE "sweep"]
  /\ UNCHANGED << orders, now, retryLog >>
  /\ hookUnchanged

\* UPDATE orders SET status = 'PAID' WHERE id = orderId
processWebhook_order(j) ==
  /\ hooks[j].pc = "order"
  /\ \/ /\ hooks' = [hooks EXCEPT ![j] = caught(j)]
        /\ UNCHANGED orders
     \/ /\ orders' = ordersPaid(hooks[j].event.order_id)
        /\ hooks' = [hooks EXCEPT ![j].wrote = TRUE, ![j].pc = "sweep"]
  /\ UNCHANGED << now, payments, retryLog >>
  /\ hookUnchanged

\* await cleanupExpiredPayments(), whose own errors are swallowed; apply returns
processWebhook_sweep(j) ==
  /\ hooks[j].pc = "sweep"
  /\ \/ UNCHANGED payments
     \/ payments' = cleanupExpiredPayments(now)
  /\ hooks' = [hooks EXCEPT ![j] = returned(j)]
  /\ UNCHANGED << orders, now, retryLog >>
  /\ hookUnchanged

\* catch, attempt < maxRetries: INSERT INTO webhook_retry_log (a failing insert is swallowed)
processWebhook_log(j) ==
  /\ hooks[j].pc = "caught"
  /\ hooks[j].attempt < maxRetries
  /\ \/ /\ UNCHANGED retryLog
        /\ hooks' = [hooks EXCEPT ![j].pc = "logged"]
     \/ /\ retryLog' = Append(retryLog, retryRecord(hooks[j].event, hooks[j].attempt, FALSE,
                                                    now + backoffMs(hooks[j].attempt)))
        /\ hooks' = [hooks EXCEPT ![j].pc = "logged"]
  /\ UNCHANGED << orders, now, payments >>
  /\ hookUnchanged

\* mutant: the retry is awaited, so the route answers only when the retries are over
processWebhook_schedule_awaited(j) ==
  /\ hooks[j].pc = "logged"
  /\ hooks' = [hooks EXCEPT ![j].pc = "waiting",
                            ![j].due = now + backoffMs(hooks[j].attempt)]
  /\ UNCHANGED << orders, now, payments, retryLog >>
  /\ hookUnchanged

\* setTimeout(() => processWebhookWithRetry(..., attempt + 1), delay); the call returns
processWebhook_schedule(j) ==
  /\ hooks[j].pc = "logged"
  /\ hooks' = [hooks EXCEPT ![j].pc = "waiting", ![j].code = 200,
                            ![j].due = now + backoffMs(hooks[j].attempt)]
  /\ UNCHANGED << orders, now, payments, retryLog >>
  /\ hookUnchanged

\* the timer fires, not before it is due and not before an earlier timer
processWebhook_retry(j) ==
  /\ hooks[j].pc = "waiting"
  /\ \A k \in DOMAIN hooks : hooks[k].pc = "waiting" => hooks[k].due >= hooks[j].due
  /\ now' = IF now < hooks[j].due THEN hooks[j].due ELSE now
  /\ hooks' = [hooks EXCEPT ![j].pc = "select", ![j].attempt = hooks[j].attempt + 1]
  /\ UNCHANGED << orders, payments, retryLog >>
  /\ hookUnchanged

\* catch, attempts exhausted: INSERT the final_failure record; a failing insert
\* skips the payment update that shares its try block
processWebhook_deadlog(j) ==
  /\ hooks[j].pc = "caught"
  /\ ~(hooks[j].attempt < maxRetries)
  /\ \/ /\ UNCHANGED retryLog
        /\ hooks' = [hooks EXCEPT ![j].pc = "done", ![j].threw = TRUE]
     \/ /\ retryLog' = Append(retryLog, retryRecord(hooks[j].event, hooks[j].attempt, TRUE, 0))
        /\ hooks' = [hooks EXCEPT ![j].pc = "deadupdate"]
  /\ UNCHANGED << orders, now, payments >>
  /\ hookUnchanged

\* UPDATE payments SET status = 'FAILED' (a failing update is swallowed); throw error
processWebhook_deadupdate(j) ==
  /\ hooks[j].pc = "deadupdate"
  /\ \/ UNCHANGED payments
     \/ payments' = paymentsDeadLettered(hooks[j].event.payment_id)
  /\ hooks' = [hooks EXCEPT ![j].pc = "done", ![j].threw = TRUE]
  /\ UNCHANGED << orders, now, retryLog >>
  /\ hookUnchanged

(* ----------------------------- GET /orders ----------------------------- *)
listUnchanged == UNCHANGED << orders, orderSeq, ordersCreatedTotal, cache, orderCache, now,
                              ticks, creates, updates, gets, updLog, payVars, inits,
                              cancels, cacheCall, uncleaned, lastSet, readAt >>

\* the request arrives; getOrders runs SELECT COUNT(*) with its WHERE clause
listOrders_count(u, status, q, page, limit) ==
  /\ lists.pc \in {"idle", "done"}
  /\ listed < MaxList
  /\ listed' = listed + 1
  /\ LET started == [IdleList EXCEPT !.user = u, !.status = status, !.q = q,
                                     !.page = page, !.limit = limit,
                                     !.prev = IF /\ lists.pc = "done"
                                                 /\ lists.code = 200
                                                 /\ lists.page = 1 /\ page = 2
                                                 /\ lists.user = u /\ lists.q = q
                                                 /\ lists.status = status
                                                 /\ lists.limit = limit
                                              THEN [user |-> lists.user,
                                                    status |-> lists.status, q |-> lists.q,
                                                    page |-> lists.page,
                                                    limit |-> lists.limit,
                                                    orders |-> lists.orders]
                                              ELSE IdleList.prev]
     IN \/ lists' = [started EXCEPT !.pc = "page",
                       !.total = Cardinality(whereOrders(u, role(u), status, q))]
        \/ lists' = [started EXCEPT !.pc = "done", !.code = 500]
  /\ listUnchanged

\* SELECT * ... ORDER BY created_at DESC LIMIT limit OFFSET (page - 1) * limit
listOrders_page ==
  /\ lists.pc = "page"
  /\ \/ \E s \in orderedByCreatedDesc(whereOrders(lists.user, role(lists.user),
                                                   lists.status, lists.q)) :
          lists' = [lists EXCEPT !.pc = "done", !.code = 200,
                                 !.orders = pageOf(s, lists.page, lists.limit)]
     \/ lists' = [lists EXCEPT !.pc = "done", !.code = 500]
  /\ UNCHANGED listed
  /\ listUnchanged

(* ---------------------- POST /payments/initiate ------------------------ *)
\* SELECT ... FROM payments WHERE order_id AND status = 'PENDING'
pendingPayments(orderId) ==
  {q \in payments : q.order_id = orderId /\ q.status = "PENDING"}

\* pay_<random>: an identifier no stored payment has
freshPaymentId == Cardinality(payments) + 1

initUnchanged == UNCHANGED << orders, orderSeq, ordersCreatedTotal, cache, orderCache, now,
                              ticks, creates, updates, gets, updLog, retryLog, hooks,
                              deliveries, lists, listed, cancels, cacheCall, uncleaned,
                              lastSet, readAt >>

finishInit(r, code, paymentId) ==
  inits' = [inits EXCEPT ![r].pc = "done", ![r].code = code, ![r].payment_id = paymentId]

\* the request arrives; orderService.getOrderById, then the already-paid check
initiate_order(r, u, orderId) ==
  /\ inits[r].pc = "idle"
  /\ r > 1 => inits[r - 1].pc # "idle"
  /\ LET started == [inits[r] EXCEPT !.user = u, !.order_id = orderId]
     IN \/ IF getOrderById(orderId, u, role(u)) = {}
           THEN inits' = [inits EXCEPT ![r] = [started EXCEPT !.pc = "done", !.code = 404]]
           ELSE \E o \in getOrderById(orderId, u, role(u)) :
                  IF o.status = "PAID"
                  THEN inits' = [inits EXCEPT ![r] =
                         [started EXCEPT !.pc = "done", !.code = 400]]
                  ELSE inits' = [inits EXCEPT ![r] =
                         [started EXCEPT !.pc = "pending", !.order = mapRowToOrder(o)]]
        \/ inits' = [inits EXCEPT ![r] = [started EXCEPT !.pc = "done", !.code = 500]]
  /\ UNCHANGED payments
  /\ initUnchanged

\* SELECT the order's PENDING payment: an existing one is handed out again
initiate_pending(r) ==
  /\ inits[r].pc = "pending"
  /\ IF pendingPayments(inits[r].order_id) # {}
     THEN \E q \in pendingPayments(inits[r].order_id) : finishInit(r, 200, q.payment_id)
     ELSE inits' = [inits EXCEPT ![r].pc = "insert"]
  /\ UNCHANGED payments
  /\ initUnchanged

\* INSERT INTO payments ... status PENDING, expires_at = now + 30 min; answer 200
initiate_insert(r) ==
  /\ inits[r].pc = "insert"
  /\ payments' = payments \cup
       {[payment_id |-> freshPaymentId, order_id |-> inits[r].order_id,
         amount |-> inits[r].order.total_amount, status |-> "PENDING",
         transaction_id |-> Null, failure_reason |-> Null,
         expires_at |-> now + PaymentTtlMs]}
  /\ finishInit(r, 200, freshPaymentId)
  /\ initUnchanged

\* a statement of the route throws a storage error
initiate_fail(r) ==
  /\ inits[r].pc \in {"pending", "insert"}
  /\ finishInit(r, 500, 0)
  /\ UNCHANGED payments
  /\ initUnchanged

(* ------------------ POST /payments/:payment_id/cancel ------------------ *)
\* SELECT p.*, o.user_id FROM payments p JOIN orders o ON p.order_id = o.id
\* WHERE p.payment_id: the payment rows paired with the owner of their order
paymentWithOwner(pid) ==
  {[payment |-> x[1], user_id |-> x[2].user_id] :
     x \in {y \in payments \X orders : y[1].payment_id = pid /\ y[2].id = y[1].order_id}}

cancelUnchanged == UNCHANGED << orders, orderSeq, ordersCreatedTotal, cache, orderCache, now,
                                ticks, creates, updates, gets, updLog, retryLog, hooks,
                                deliveries, inits, lists, listed, cacheCall, uncleaned,
                                lastSet, readAt >>

\* the request arrives; the payment is read with its order's owner, then the
\* ownership check (req.user.role !== 'admin' && payment.user_id !== req.user.id)
\* and the still-PENDING check
cancel_select(r, u, pid) ==
  /\ cancels[r].pc = "idle"
  /\ r > 1 => cancels[r - 1].pc # "idle"
  /\ LET started == [cancels[r] EXCEPT !.user = u, !.payment_id = pid]
         answer(code) == cancels' = [cancels EXCEPT ![r] =
                           [started EXCEPT !.pc = "done", !.code = code]]
     IN \/ IF paymentWithOwner(pid) = {}
           THEN answer(404)
           ELSE \E p \in paymentWithOwner(pid) :
                  IF role(u) # "admin" /\ p.user_id # u THEN answer(403)
                  ELSE IF p.payment.status # "PENDING" THEN answer(400)
                  ELSE cancels' = [cancels EXCEPT ![r] = [started EXCEPT !.pc = "update"]]
        \/ answer(500)
  /\ UNCHANGED payments
  /\ cancelUnchanged

\* UPDATE payments SET status = 'CANCELLED', failure_reason WHERE payment_id;
\* answer 200
cancel_update(r) ==
  /\ cancels[r].pc = "update"
  /\ payments' = {IF q.payment_id = cancels[r].payment_id
                  THEN [q EXCEPT !.status = "CANCELLED",
                                 !.failure_reason = "Cancelled by user"]
                  ELSE q : q \in payments}
  /\ cancels' = [cancels EXCEPT ![r].pc = "done", ![r].code = 200]
  /\ cancelUnchanged

\* the UPDATE throws a storage error
cancel_fail(r) ==
  /\ cancels[r].pc = "update"
  /\ cancels' = [cancels EXCEPT ![r].pc = "done", ![r].code = 500]
  /\ UNCHANGED payments
  /\ cancelUnchanged

(* --------------------------- specification ----------------------------- *)
UpdateWrite == \E r \in 1..MaxUpdate : updateOrderStatus_write(r)
UpdateReturn == \E r \in 1..MaxUpdate : updateOrderStatus_return(r)
UpdateFail == \E r \in 1..MaxUpdate : updateOrderStatus_fail(r)
GetCache == \E r \in 1..MaxGet, u \in Users, id \in OrderIdInputs : getOrder_cache(r, u, id)
GetQuery == \E r \in 1..MaxGet : getOrder_query(r)
GetReturn == \E r \in 1..MaxGet : getOrder_return(r)
GetFail == \E r \in 1..MaxGet : getOrder_fail(r)

\* order creation, from the empty store
Next ==
  \/ (\E r \in 1..MaxCreate, u \in Users, items \in ItemLists, tok \in Tokens :
        createOrder_select(r, u, items, tok))
  \/ (\E r \in 1..MaxCreate : createOrder_insert(r))
  \/ (\E r \in 1..MaxCreate : createOrder_return(r))
  \/ (\E r \in 1..MaxCreate : createOrder_recover(r))
  \/ (\E r \in 1..MaxCreate : createOrder_fail(r))

Spec == Init /\ [][Next]_vars

\* status updates of an order created earlier
SeedOrder == newOrderRow(1, 2, CHOOSE l \in ItemLists : Len(l) = 1, "tok-1", 0)

InitOrders ==
  /\ orders = {SeedOrder}
  /\ orderSeq = 1
  /\ ordersCreatedTotal = 1
  /\ cache = << >>
  /\ orderCache = {}
  /\ now = 0
  /\ ticks = 0
  /\ creates = [r \in 1..MaxCreate |-> IdleCreate]
  /\ updates = [r \in 1..MaxUpdate |-> IdleUpdate]
  /\ gets = [r \in 1..MaxGet |-> IdleGet]
  /\ updLog = << >>
  /\ NoPayments

NextUpdate ==
  \/ (\E r \in 1..MaxUpdate, id \in OrderIdInputs, st \in UpdateStatuses, version \in VersionInputs :
        updateOrderStatus_read(r, id, st, version))
  \/ UpdateWrite \/ UpdateReturn \/ UpdateFail

SpecUpdate == InitOrders /\ [][NextUpdate]_vars

\* detail reads through the cache, around a status update
NextDetail ==
  \/ (\E r \in 1..MaxDetailUpdate, id \in OrderIdInputs, st \in UpdateStatuses, version \in VersionInputs :
        updateOrderStatus_read(r, id, st, version))
  \/ UpdateWrite \/ UpdateReturn \/ UpdateFail
  \/ GetCache \/ GetQuery \/ GetReturn \/ GetFail
  \/ Tick(OrderTickSteps)

SpecDetail == InitOrders /\ [][NextDetail]_vars

\* webhook deliveries for payments initiated earlier
SeedOrder2 == newOrderRow(2, 3, CHOOSE l \in ItemLists : Len(l) = 2, "tok-2", 0)

HookStartMs == PaymentTtlMs + 200000

newPaymentRow(pid, order, t) ==
  [payment_id |-> pid, order_id |-> order.id, amount |-> order.total_amount,
   status |-> "PENDING", transaction_id |-> Null, failure_reason |-> Null,
   expires_at |-> t + PaymentTtlMs]

\* payment 1: just initiated for order 1; payment 2: initiated for order 2 at time 0,
\* still PENDING and past its expiry
SeedPayments ==
  {newPaymentRow(1, SeedOrder, HookStartMs), newPaymentRow(2, SeedOrder2, 0)}

seededPayments(slots) ==
  /\ orders = {SeedOrder, SeedOrder2}
  /\ orderSeq = 2
  /\ ordersCreatedTotal = 2
  /\ cache = << >>
  /\ orderCache = {}
  /\ now = HookStartMs
  /\ ticks = 0
  /\ creates = [r \in 1..MaxCreate |-> IdleCreate]
  /\ updates = [r \in 1..MaxUpdate |-> IdleUpdate]
  /\ gets = [r \in 1..MaxGet |-> IdleGet]
  /\ updLog = << >>
  /\ payments = SeedPayments
  /\ retryLog = << >>
  /\ hooks = [j \in slots |-> IdleHook]
  /\ deliveries = 0
  /\ NoAux

\* one delivery at a time
InitHook == seededPayments(HookSlots)

\* a delivery arrives with one of the given bodies
WebhookReceive(bodies) ==
  /\ deliveries < MaxDeliveries
  /\ \E j \in DOMAIN hooks :
       /\ hookFree(j)
       /\ \E body \in bodies : \E ts \in TsInputs(now) : \E sig \in SigInputs(ts, body) :
            webhook_receive(j, sig, ts, body)
HookSelect == \E j \in DOMAIN hooks : processWebhook_select(j)
HookUpdate == \E j \in DOMAIN hooks : processWebhook_update(j)
HookOrder == \E j \in DOMAIN hooks : processWebhook_order(j)
HookSweep == \E j \in DOMAIN hooks : processWebhook_sweep(j)
HookLog == \E j \in DOMAIN hooks : processWebhook_log(j)
HookSchedule == \E j \in DOMAIN hooks : processWebhook_schedule(j)
HookRetry == \E j \in DOMAIN hooks : processWebhook_retry(j)
HookDeadLog == \E j \in DOMAIN hooks : processWebhook_deadlog(j)
HookDeadUpdate == \E j \in DOMAIN hooks : processWebhook_deadupdate(j)

NextHook ==
  \/ WebhookReceive(EventInputs) \/ HookSelect \/ HookUpdate \/ HookOrder \/ HookSweep
  \/ HookLog \/ HookSchedule \/ HookRetry \/ HookDeadLog \/ HookDeadUpdate

SpecHook == InitHook /\ [][NextHook]_vars

\* two deliveries in flight at once
SpecReplay == seededPayments(ReplaySlots) /\ [][NextHook]_vars

\* deliveries whose body names any order
NextBody ==
  \/ WebhookReceive(BodyOrderInputs) \/ HookSelect \/ HookUpdate \/ HookOrder \/ HookSweep
  \/ HookLog \/ HookSchedule \/ HookRetry \/ HookDeadLog \/ HookDeadUpdate

SpecBody == InitHook /\ [][NextBody]_vars

\* deliveries followed through their retries while the clock runs during the awaits
NextBackoff ==
  \/ WebhookReceive(BackoffInputs) \/ HookSelect \/ HookUpdate \/ HookOrder \/ HookSweep
  \/ HookLog \/ HookSchedule \/ HookRetry \/ HookDeadLog \/ HookDeadUpdate
  \* the clock advances while a statement of apply is awaited
  \/ ((\E j \in DOMAIN hooks : hooks[j].pc \notin {"idle", "done", "waiting"})
        /\ Tick(AwaitTickSteps))

SpecBackoff == InitHook /\ [][NextBackoff]_vars

\* deliveries whose body carries any status
NextStatus ==
  \/ WebhookReceive(StatusInputs) \/ HookSelect \/ HookUpdate \/ HookOrder \/ HookSweep
  \/ HookLog \/ HookSchedule \/ HookRetry \/ HookDeadLog \/ HookDeadUpdate

SpecStatus == InitHook /\ [][NextStatus]_vars

\* detail reads of order 1 by its owner, around the deliveries
\* of a successful charge
NextPaidView ==
  \/ WebhookReceive(BackoffInputs) \/ HookSelect \/ HookUpdate \/ HookOrder \/ HookSweep
  \/ HookLog \/ HookSchedule \/ HookRetry \/ HookDeadLog \/ HookDeadUpdate
  \/ (\E r \in 1..MaxGet : getOrder_cache(r, SeedOrder.user_id, SeedOrder.id))
  \/ GetQuery \/ GetReturn \/ GetFail

SpecPaidView == InitHook /\ [][NextPaidView]_vars

\* payment initiation for the seeded order, with a clock that can run past a
\* payment's 30 minutes
InitiatePending == \E r \in 1..MaxInit : initiate_pending(r)
InitiateInsert == \E r \in 1..MaxInit : initiate_insert(r)
InitiateFail == \E r \in 1..MaxInit : initiate_fail(r)

NextInitiate ==
  \/ (\E r \in 1..MaxInit, u \in Users, id \in OrderIdInputs : initiate_order(r, u, id))
  \/ InitiatePending \/ InitiateInsert \/ InitiateFail
  \/ Tick({PaymentTtlMs + 1000})

SpecInitiate == InitOrders /\ [][NextInitiate]_vars

\* one initiation for order 1, by its owner or by the admin, around the
\* deliveries of a failed charge and of a successful one
NextPayable ==
  \/ WebhookReceive(PayableInputs) \/ HookSelect \/ HookUpdate \/ HookOrder \/ HookSweep
  \/ HookLog \/ HookSchedule \/ HookRetry \/ HookDeadLog \/ HookDeadUpdate
  \/ (\E u \in {1, SeedOrder.user_id} : initiate_order(1, u, SeedOrder.id))
  \/ InitiatePending \/ InitiateInsert \/ InitiateFail

SpecPayable == InitHook /\ [][NextPayable]_vars

\* every operation that touches an order or its payments: one request of each
\* kind, interleaved freely with the webhook deliveries: a replay of order 1's
\* token with other items by another user, an admin status update of order 1,
\* an initiation for order 1 by its owner, a cancel of payment 2 by its owner
NextFrame ==
  \/ createOrder_select(1, SeedOrder2.user_id, SeedOrder2.items, SeedOrder.client_token)
  \/ updateOrderStatus_read(1, SeedOrder.id, "CANCELLED", [given |-> FALSE, value |-> 0])
  \/ UpdateWrite \/ UpdateReturn \/ UpdateFail
  \/ (deliveries < FrameDeliveries /\ WebhookReceive(BackoffInputs))
  \/ HookSelect \/ HookUpdate \/ HookOrder \/ HookSweep
  \/ HookLog \/ HookSchedule \/ HookRetry \/ HookDeadLog \/ HookDeadUpdate
  \/ initiate_order(1, SeedOrder.user_id, SeedOrder.id)
  \/ InitiatePending \/ InitiateInsert \/ InitiateFail
  \/ cancel_select(1, SeedOrder2.user_id, 2)
  \/ (\E r \in 1..MaxCancel : cancel_update(r))
  \/ (\E r \in 1..MaxCancel : cancel_fail(r))

SpecFrame == InitHook /\ [][NextFrame]_vars

\* cancels of payment 1, by the owner of its order or by another user, around
\* the deliveries of a successful charge for it
NextCancel ==
  \/ WebhookReceive(BackoffInputs) \/ HookSelect \/ HookUpdate \/ HookOrder \/ HookSweep
  \/ HookLog \/ HookSchedule \/ HookRetry \/ HookDeadLog \/ HookDeadUpdate
  \/ (\E r \in 1..MaxCancel, u \in {SeedOrder.user_id, SeedOrder2.user_id} :
        cancel_select(r, u, 1))
  \/ (\E r \in 1..MaxCancel : cancel_update(r))
  \/ (\E r \in 1..MaxCancel : cancel_fail(r))

SpecCancel == InitHook /\ [][NextCancel]_vars

\* the cache on its own: calls of set, get, has and delete on two keys, with ttl
\* 0 or 30 s, while the clock advances and the periodic cleanup runs at any point
NextCache ==
  \/ (\E k \in {"k1", "k2"}, v \in {"v1", "v2"}, ttlMs \in {0, DetailTtlMs} :
        cache_set(k, v, ttlMs))
  \/ (\E k \in {"k1", "k2"} : cache_get(k))
  \/ (\E k \in {"k1", "k2"} : cache_has(k))
  \/ (\E k \in {"k1", "k2"} : cache_delete(k))
  \/ cache_cleanup
  \/ Tick(OrderTickSteps)

SpecCache == Init /\ [][NextCache]_vars

\* order-detail reads by the admin and by two users, each owning one order
NextView == GetCache \/ GetQuery \/ GetReturn \/ GetFail \/ Tick(OrderTickSteps)

InitView ==
  /\ orders = {SeedOrder, SeedOrder2}
  /\ orderSeq = 2
  /\ ordersCreatedTotal = 2
  /\ cache = << >>
  /\ orderCache = {}
  /\ now = 0
  /\ ticks = 0
  /\ creates = [r \in 1..MaxCreate |-> IdleCreate]
  /\ updates = [r \in 1..MaxUpdate |-> IdleUpdate]
  /\ gets = [r \in 1..MaxGet |-> IdleGet]
  /\ updLog = << >>
  /\ NoPayments

SpecView == InitView /\ [][NextView]_vars

\* listings over a table of three orders of two users, each PENDING or PAID
SeedOrder3 == newOrderRow(3, 2, CHOOSE l \in ItemLists : Len(l) = 2, "tok-3", 0)

NextList ==
  \/ (\E u \in Users, status \in ListStatuses, q \in SearchInputs, page \in PageInputs,
         limit \in LimitInputs : listOrders_count(u, status, q, page, limit))
  \/ listOrders_page

InitList ==
  /\ \E paid \in SUBSET {SeedOrder, SeedOrder2, SeedOrder3} :
       orders = {IF o \in paid THEN updatedRow(o, "PAID") ELSE o :
                   o \in {SeedOrder, SeedOrder2, SeedOrder3}}
  /\ orderSeq = 3
  /\ ordersCreatedTotal = 3
  /\ cache = << >>
  /\ orderCache = {}
  /\ now = 0
  /\ ticks = 0
  /\ creates = [r \in 1..MaxCreate |-> IdleCreate]
  /\ updates = [r \in 1..MaxUpdate |-> IdleUpdate]
  /\ gets = [r \in 1..MaxGet |-> IdleGet]
  /\ updLog = << >>
  /\ NoPayments

SpecList == InitList /\ [][NextList]_vars

(* ------------------------------ claims --------------------------------- *)

\* C1: order-creation requests carrying the same client_token, however their
\* steps interleave, all get a success response describing the same order and
\* none gets an error (storage faults aside).
C1_SameOrderNoError ==
  \A r1, r2 \in 1..MaxCreate :
    (/\ creates[r1].pc = "done" /\ ~creates[r1].faulted
     /\ creates[r2].pc = "done" /\ ~creates[r2].faulted
     /\ creates[r1].token = creates[r2].token)
    => /\ creates[r1].resp.code \in {200, 201}
       /\ creates[r2].resp.code \in {200, 201}
       /\ creates[r1].resp.body.id = creates[r2].resp.body.id

\* C2: in every reachable state at most one order row exists per client_token.
C2_OneRowPerToken ==
  \A o1, o2 \in orders : o1.client_token = o2.client_token => o1 = o2

\* two requests with one token both passed the lookup and both reached the
\* INSERT; one inserted, the other hit the constraint
C2_Witness ==
  \E r1, r2 \in 1..MaxCreate :
    /\ r1 # r2
    /\ creates[r1].token = creates[r2].token
    /\ creates[r1].pc = "inserted"
    /\ creates[r2].pc = "recover"
    /\ Cardinality(byToken(creates[r1].token)) = 1

\* C3: two updateOrderStatus calls on one order supplying the same
\* expectedVersion, equal to the stored version when the first starts, end
\* with exactly one success and one Conflict (storage faults aside).
C3_OneWinnerOneConflict ==
  \A r1, r2 \in 1..MaxUpdate :
    (/\ r1 # r2
     /\ updates[r1].pc = "done" /\ updates[r2].pc = "done"
     /\ updates[r1].id = SeedOrder.id /\ updates[r2].id = SeedOrder.id
     /\ updates[r1].version = [given |-> TRUE, value |-> SeedOrder.version]
     /\ updates[r2].version = [given |-> TRUE, value |-> SeedOrder.version]
     /\ updates[r1].resp.code # 500 /\ updates[r2].resp.code # 500)
    => {updates[r1].resp.code, updates[r2].resp.code} = {200, 409}

\* the update requests whose UPDATE statement committed on order id
committed(id) ==
  {r \in 1..MaxUpdate : updates[r].id = id /\ updates[r].row # NoRow}

\* C4: every successful updateOrderStatus raises the stored version by exactly
\* one, and the versions returned by the successful calls on an order are
\* consecutive in commit order, without gap or repeat.
C4_VersionsConsecutive ==
  \A o \in orders :
    LET log == SelectSeq(updLog, LAMBDA e : e[1] = o.id)
    IN /\ \A i \in 1..Len(log) : log[i][2] = SeedOrder.version + i
       /\ o.version = SeedOrder.version + Len(log)
       /\ {updates[r].row.version : r \in committed(o.id)} =
            (SeedOrder.version + 1)..o.version
       /\ Cardinality(committed(o.id)) = Len(log)
       /\ \A r \in committed(o.id) :
            updates[r].pc = "done" =>
              /\ updates[r].resp.code = 200
              /\ updates[r].resp.body.version = updates[r].row.version

\* two calls on the same order both succeeded
C4_Witness ==
  \E r1, r2 \in 1..MaxUpdate :
    /\ r1 # r2
    /\ updates[r1].id = updates[r2].id
    /\ updates[r1].resp.code = 200 /\ updates[r2].resp.code = 200
    /\ ~updates[r1].version.given

\* C5: after a successful updateOrderStatus on an order, a detail read of that
\* order by any viewer is not answered with a snapshot older than the update.
C5_NoStaleRead ==
  [][\A g \in 1..MaxGet :
       (gets[g].pc = "idle" /\ gets'[g].pc = "done" /\ gets'[g].resp.code = 200)
       => \A r \in 1..MaxUpdate :
            (updates[r].pc = "done" /\ updates[r].resp.code = 200
             /\ updates[r].id = gets'[g].id)
            => gets'[g].resp.body.version >= updates[r].resp.body.version]_vars

\* C6: a payment whose status is SUCCESS, FAILED or CANCELLED keeps that status in
\* every later state, whatever verified events, retries, dead-letter updates and
\* sweeps follow.
C6_TerminalIsFinal ==
  [][\A p \in payments :
       p.status \in {"SUCCESS", "FAILED", "CANCELLED"} =>
         \E q \in payments' : q.payment_id = p.payment_id /\ q.status = p.status]_vars

\* C7: of two deliveries of the same verified event (same payment_id and
\* transaction_id) only one writes to payments or orders: the second delivery
\* performs no write.
C7_SecondDeliveryNoWrite ==
  \A j, k \in DOMAIN hooks :
    (/\ j # k
     /\ hooks[j].attempt >= 1
     /\ hooks[j].event = hooks[k].event
     /\ hooks[j].event.transaction_id # Undefined)
      => ~(hooks[j].wrote /\ hooks[k].wrote)

\* C8: when a retry attempt (attempt 2 or 3) of apply for a SUCCESS event returns
\* without error, the payment is SUCCESS and its order is PAID.
C8_RetryReplaysAll ==
  [][\A j \in DOMAIN hooks :
       (/\ hooks[j].pc \in {"select", "sweep"}
        /\ hooks'[j].pc = "done"
        /\ hooks[j].attempt >= 2
        /\ hooks[j].event.status = "SUCCESS")
         => \A q \in payments' :
              q.payment_id = hooks[j].event.payment_id =>
                /\ q.status = "SUCCESS"
                /\ \A o \in orders' : o.id = q.order_id => o.status = "PAID"]_vars

\* C9: when the last attempt of an event has failed and the processor stops, no
\* more than 3 attempts were made, the payment is FAILED and the retry log holds a
\* final_failure record for that payment.
C9_DeadLetterRecorded ==
  [][\A j \in DOMAIN hooks :
       (hooks[j].pc \in {"caught", "deadupdate"} /\ hooks'[j].pc = "done")
         => /\ hooks'[j].attempt <= maxRetries
            /\ \A q \in payments' :
                 q.payment_id = hooks[j].event.payment_id => q.status = "FAILED"
            /\ \E i \in 1..Len(retryLog') :
                 /\ retryLog'[i].final_failure
                 /\ retryLog'[i].payment_id = hooks[j].event.payment_id]_vars

\* C10: a request without a signature or timestamp header, with a timestamp more
\* than 300 seconds from now, or with a signature other than the recomputed HMAC
\* is answered with an error, never enters apply, and its handling leaves
\* payments, orders and the retry log unchanged.
C10_RejectedNoEffect ==
  [][\A j \in DOMAIN hooks :
       (hooks'[j].bad /\ hooks'[j] # hooks[j])
         => /\ hooks'[j].pc = "done"
            /\ hooks'[j].attempt = 0
            /\ hooks'[j].code \in {400, 401, 500}
            /\ UNCHANGED << payments, orders, retryLog >>]_vars

\* a forged request was rejected after an earlier event had been applied
C10_Witness ==
  /\ \E j \in DOMAIN hooks : hooks[j].bad /\ hooks[j].code = 401 /\ hooks[j].attempt = 0
  /\ \E q \in payments : q.payment_id = 1 /\ q.status = "SUCCESS"
  /\ \E o \in orders : o.id = 1 /\ o.status = "PAID"

\* C11: updateOrderStatus called with a supplied expectedVersion that differs from
\* the stored version does not go on to the UPDATE: the call ends at the check
\* (Conflict, or a storage error of the SELECT itself) and the order row and the
\* caches are unchanged.
C11_StaleVersionNoWrite ==
  [][\A r \in 1..MaxUpdate :
       (/\ updates[r].pc = "idle" /\ updates'[r].pc # "idle"
        /\ updates'[r].version.given
        /\ \E o \in byId(updates'[r].id) : o.version # updates'[r].version.value)
         => /\ updates'[r].pc = "done"
            /\ updates'[r].resp.code \in {409, 500}
            /\ UNCHANGED << orders, cache, orderCache >>]_vars

\* C12 (as stated): in every reachable state the orders-created counter equals
\* the number of order rows inserted by this process.
C12_CounterEqualsRows ==
  ordersCreatedTotal = Cardinality(orders)

\* C12 (amended): the counter equals the number of inserted order rows, less the
\* rows whose createOrder call has not yet resumed after its INSERT; so it is
\* bumped exactly once per new order and never on a replay, a failed insert or
\* the losing side of an insert race.
C12_CounterEqualsReturnedInserts ==
  ordersCreatedTotal + Cardinality({r \in 1..MaxCreate : creates[r].pc = "inserted"})
    = Cardinality(orders)

\* one order was counted once while a replay and the loser of a race were answered
C12_Witness ==
  /\ ordersCreatedTotal = 1
  /\ Cardinality(orders) = 1
  /\ \E r1, r2 \in 1..MaxCreate :
       /\ r1 # r2
       /\ creates[r1].pc = "done" /\ creates[r1].resp.code = 201
       /\ creates[r2].pc = "done" /\ creates[r2].resp.code \in {200, 201, 500}
       /\ creates[r2].token = creates[r1].token

\* C13: in every reachable state, whatever the interleaving of payment-initiation
\* requests, an order has at most one payment in PENDING status.
C13_OnePendingPerOrder ==
  \A o \in orders : Cardinality(pendingPayments(o.id)) <= 1

\* C14: a non-admin viewer's order-detail read, answered from the store or from
\* the cache, never returns an order of another user: a 200 carries the requested
\* order and its user_id is the viewer's id; for another user's order the answer
\* is not-found (or the error of a failed SELECT).
C14_NoForeignOrder ==
  \A g \in 1..MaxGet :
    (gets[g].pc = "done" /\ role(gets[g].user) # "ADMIN")
      => /\ gets[g].resp.code = 200 =>
              (gets[g].resp.body.id = gets[g].id /\ gets[g].resp.body.user_id = gets[g].user)
         /\ \A o \in byId(gets[g].id) :
              o.user_id # gets[g].user => gets[g].resp.code \in {404, 500}

\* the admin's read cached an order; a read of the same order by a user who does
\* not own it was answered not-found while that entry was live
C14_Witness ==
  \E g1, g2 \in 1..MaxGet :
    /\ gets[g1].pc = "done" /\ role(gets[g1].user) = "ADMIN" /\ gets[g1].resp.code = 200
    /\ gets[g2].pc = "done" /\ role(gets[g2].user) # "ADMIN"
    /\ gets[g2].id = gets[g1].id
    /\ gets[g2].resp.code = 404
    /\ CacheService_hit(cache, cacheKey(gets[g1].id, gets[g1].user), now)

\* the orders that a listing by user u with the given filters is about
matching(u, status, q) ==
  {o \in orders :
     /\ role(u) = "ADMIN" \/ o.user_id = u
     /\ status = "" \/ o.status = status
     /\ q = "" \/ q \in itemsText(o.items)}

\* C15: for every status filter, SKU search, page and limit, a listing by a
\* non-admin returns only the caller's own matching orders and its total counts
\* only those; a listing by an admin ranges over all matching orders.
C15_ListOwnOrders ==
  (lists.pc = "done" /\ lists.code = 200)
    => /\ lists.total = Cardinality(matching(lists.user, lists.status, lists.q))
       /\ \A i \in 1..Len(lists.orders) :
            /\ \E o \in matching(lists.user, lists.status, lists.q) :
                 mapRowToOrder(o) = lists.orders[i]
            /\ role(lists.user) # "ADMIN" => lists.orders[i].user_id = lists.user
       /\ Len(lists.orders) <= lists.limit
       /\ lists.page = 1 =>
            (Len(lists.orders) = lists.limit \/ Len(lists.orders) = lists.total)

\* a user who owns two of the three orders listed them with a filter while the
\* table held another user's order matching the same filter
C15_Witness ==
  /\ lists.pc = "done" /\ lists.code = 200
  /\ role(lists.user) # "ADMIN"
  /\ lists.q # ""
  /\ lists.total = 2 /\ Len(lists.orders) = 2
  /\ \E o \in orders :
       o.user_id # lists.user /\ lists.q \in itemsText(o.items)

\* C16: when the attempts of apply are exhausted the failure is captured and the
\* retry procedure ends without raising: no delivery ends with an error thrown out
\* of processWebhookWithRetry.
C16_DeadLetterDoesNotThrow ==
  \A j \in DOMAIN hooks : hooks[j].pc = "done" => ~hooks[j].threw

\* C17: every step that changes the status of an order, by updateOrderStatus or by
\* the webhook processor, raises that order's version by exactly 1.
C17_StatusChangeBumpsVersion ==
  [][\A o \in orders : \A n \in orders' :
       (n.id = o.id /\ n.status # o.status) => n.version = o.version + 1]_vars

\* C18: createOrder called with a client_token that already has a stored order
\* returns that order and writes nothing: the call ends at the lookup, the order
\* rows and the counter are unchanged (a storage error of the lookup aside),
\* whatever owner and items the replay supplies.
C18_ReplayWritesNothing ==
  [][\A r \in 1..MaxCreate :
       (/\ creates[r].pc = "idle" /\ creates'[r].pc # "idle"
        /\ byToken(creates'[r].token) # {})
         => /\ creates'[r].pc = "done"
            /\ UNCHANGED << orders, orderSeq, ordersCreatedTotal >>
            /\ \/ creates'[r].faulted
               \/ /\ creates'[r].resp.code = 201
                  /\ \E o \in byToken(creates'[r].token) :
                       creates'[r].resp.body = mapRowToOrder(o)]_vars

\* a replay by another user with other items was answered with the stored order
C18_Witness ==
  \E r \in 1..MaxCreate :
    /\ creates[r].pc = "done" /\ creates[r].resp.code = 201
    /\ creates[r].resp.body.user_id # creates[r].user
    /\ creates[r].resp.body.items # creates[r].items
    /\ Cardinality(orders) = 1 /\ ordersCreatedTotal = 1

\* C19: when the first attempt of apply for a verified SUCCESS event on payment P
\* returns without error, the order that P's stored row references is PAID,
\* whatever order_id the body carries.
C19_ReferencedOrderPaid ==
  [][\A j \in DOMAIN hooks :
       (/\ hooks[j].pc \in {"select", "sweep"}
        /\ hooks'[j].pc = "done"
        /\ hooks[j].attempt = 1
        /\ hooks[j].event.status = "SUCCESS")
         => \A q \in payments' :
              q.payment_id = hooks[j].event.payment_id =>
                \A o \in orders' : o.id = q.order_id => o.status = "PAID"]_vars

\* C20: the webhook request is answered when the first attempt of apply is over
\* and not before; a failing first attempt is acknowledged all the same, and the
\* second and third attempts run after the acknowledgement; only verified
\* requests are acknowledged.
C20_AckAfterFirstAttempt ==
  \A j \in DOMAIN hooks :
    /\ (hooks[j].attempt >= 2 \/ hooks[j].pc = "waiting") => hooks[j].code = 200
    /\ (hooks[j].attempt = 1
        /\ hooks[j].pc \in {"select", "update", "order", "sweep", "caught", "logged"})
         => hooks[j].code = 0
    /\ hooks[j].code = 200 => (~hooks[j].bad /\ hooks[j].attempt >= 1)

\* a delivery was acknowledged and its apply went on to fail three times
C20_Witness ==
  \E j \in DOMAIN hooks :
    /\ hooks[j].pc = "done" /\ hooks[j].threw
    /\ hooks[j].attempt = maxRetries
    /\ hooks[j].code = 200

\* C21: a delivery whose apply keeps failing runs no attempt numbered above 3,
\* and when the retry after failed attempt k (k = 1, 2) is scheduled the retry
\* log ends with the non-final record of attempt k of that delivery.
C21_FailureRecordedBeforeRetry ==
  \A j \in DOMAIN hooks :
    /\ hooks[j].attempt <= maxRetries
    /\ hooks[j].pc = "waiting" =>
         /\ Len(retryLog) >= 1
         /\ retryLog[Len(retryLog)].payment_id = hooks[j].event.payment_id
         /\ retryLog[Len(retryLog)].attempt_number = hooks[j].attempt
         /\ ~retryLog[Len(retryLog)].final_failure

\* the retry-log record written by the failed attempt whose retry slot j awaits
C22_RecordOfAttempt(j) ==
  /\ Len(retryLog) >= 1
  /\ retryLog[Len(retryLog)].payment_id = hooks[j].event.payment_id
  /\ retryLog[Len(retryLog)].attempt_number = hooks[j].attempt
  /\ ~retryLog[Len(retryLog)].final_failure

\* C22 (as stated): the retry after failed attempt k is due 2^k seconds after
\* its scheduling, and the retry_at of the record of attempt k equals that time.
C22_RetryAtEqualsDue ==
  \A j \in DOMAIN hooks :
    (hooks[j].pc = "waiting" /\ C22_RecordOfAttempt(j)) =>
       retryLog[Len(retryLog)].retry_at = hooks[j].due

\* C22 (amended): the retry after failed attempt k is set 2^k seconds (2 s, 4 s)
\* after the moment it is scheduled, the retry_at of the record of attempt k is
\* no later than that time, and the next attempt does not start before it.
C22_RetryAtNoLaterThanDue ==
  [][\A j \in DOMAIN hooks :
       /\ (hooks[j].pc = "logged" /\ hooks'[j].pc = "waiting") =>
            /\ hooks[j].attempt \in {1, 2}
            /\ hooks'[j].due - now = (IF hooks[j].attempt = 1 THEN 2 ELSE 4) * 1000
            /\ C22_RecordOfAttempt(j) => retryLog[Len(retryLog)].retry_at <= hooks'[j].due
       /\ (hooks[j].pc = "waiting" /\ hooks'[j].pc = "select") =>
            /\ now' >= hooks[j].due
            /\ hooks'[j].attempt = hooks[j].attempt + 1]_vars

\* the retry of attempt 2 waits, scheduled later than the retry_at in its record
C22_Witness ==
  \E j \in DOMAIN hooks :
    /\ hooks[j].pc = "waiting" /\ hooks[j].attempt = 2
    /\ C22_RecordOfAttempt(j)
    /\ retryLog[Len(retryLog)].retry_at < hooks[j].due

\* C23: the requests of one caller that carry the same client_token get the same
\* response, status code and order alike, whether the request created the order,
\* replayed it or lost the insert race (storage faults aside).
C23_SameResponse ==
  \A r1, r2 \in 1..MaxCreate :
    (/\ creates[r1].pc = "done" /\ ~creates[r1].faulted
     /\ creates[r2].pc = "done" /\ ~creates[r2].faulted
     /\ creates[r1].token = creates[r2].token
     /\ creates[r1].user = creates[r2].user)
    => creates[r1].resp = creates[r2].resp

\* C24: whenever the webhook processor sets an order to PAID, a payment with
\* status SUCCESS whose stored row references that order exists, and no other
\* order row changes in that step.
C24_PaidOrderHasSuccessfulPayment ==
  [][\A j \in DOMAIN hooks :
       (hooks[j].pc = "order" /\ hooks'[j].pc = "sweep") =>
          \A o \in orders :
            o \notin orders' =>
              \E q \in payments : q.status = "SUCCESS" /\ q.order_id = o.id]_vars

\* the four payment statuses the claim names
C25_Statuses == {"PENDING", "SUCCESS", "FAILED", "CANCELLED"}

\* C25: in every reachable state each payment's status is one of PENDING,
\* SUCCESS, FAILED, CANCELLED, whatever verified webhook bodies were accepted.
C25_PaymentStatusInEnum ==
  \A q \in payments : q.status \in C25_Statuses

\* C26: no step of apply for a verified FAILED event changes an order row, and
\* the order stays payable: an initiation for it by its owner or the admin is
\* refused as already paid only when the order is PAID, and is otherwise answered
\* with a PENDING payment of that order (a storage error aside).
C26_FailedKeepsOrderPayable ==
  [][/\ \A j \in DOMAIN hooks :
          (~hookFree(j) /\ hooks[j].event.status = "FAILED" /\ hooks'[j] # hooks[j])
            => orders' = orders
     /\ \A r \in DOMAIN inits :
          (inits[r].pc # "done" /\ inits'[r].pc = "done") =>
             /\ inits'[r].code \in {200, 400, 500}
             /\ inits'[r].code = 400 =>
                  \E o \in orders : o.id = inits'[r].order_id /\ o.status = "PAID"
             /\ inits'[r].code = 200 =>
                  \E q \in payments' : /\ q.payment_id = inits'[r].payment_id
                                       /\ q.order_id = inits'[r].order_id
                                       /\ q.status = "PENDING"]_vars

\* payment 1 was failed by its webhook, order 1 is as it was, and a new payment
\* for order 1 has been initiated
C26_Witness ==
  /\ \E q \in payments : q.payment_id = 1 /\ q.status = "FAILED" /\ q.transaction_id = "t2"
  /\ SeedOrder \in orders
  /\ \E j \in DOMAIN hooks :
       hooks[j].pc = "done" /\ hooks[j].wrote /\ hooks[j].event.status = "FAILED"
  /\ \E r \in DOMAIN inits :
       /\ inits[r].pc = "done" /\ inits[r].code = 200 /\ inits[r].order_id = 1
       /\ \E q \in payments : /\ q.payment_id = inits[r].payment_id
                              /\ q.payment_id # 1 /\ q.status = "PENDING"

\* C27: a verified event without transaction_id, delivered again after it moved
\* its payment out of PENDING, stops at the idempotency check: apply goes on to
\* no write of the payment or of the order.
C27_NoTransactionRedeliveryIsNoOp ==
  [][\A j \in DOMAIN hooks :
       (/\ hooks[j].pc = "select"
        /\ hooks[j].event.transaction_id = Undefined
        /\ \E q \in paymentById(hooks[j].event.payment_id) :
             /\ q.status # "PENDING"
             /\ q.status = hooks[j].event.status
             /\ q.transaction_id = Null)
         => hooks'[j].pc # "update"]_vars

\* C28: once the webhook path has set an order to PAID, a detail read of that
\* order answered from the cache does not carry the status from before the payment.
C28_NoStaleReadAfterPayment ==
  [][\A g \in 1..MaxGet :
       (gets[g].pc = "idle" /\ gets'[g].pc = "done" /\ gets'[g].resp.code = 200)
       => \A o \in orders :
            (o.id = gets'[g].id /\ o.status = "PAID")
            => gets'[g].resp.body.status = "PAID"]_vars

\* the sum of price times quantity over a list of one or two items
C29_Total(items) ==
  IF Len(items) = 1 THEN items[1].price * items[1].quantity
  ELSE items[1].price * items[1].quantity + items[2].price * items[2].quantity

\* C29: the INSERT of a first createOrder for a token stores exactly one new row
\* with status PENDING, version 1, the caller as owner, the request's items and
\* token and total_amount equal to the sum of price times quantity; the request
\* is answered 201 with that row.
C29_NewOrderFields ==
  [][\A r \in 1..MaxCreate :
       /\ (creates[r].pc = "insert" /\ creates'[r].pc = "inserted") =>
            \E o \in orders' :
              /\ o \notin orders /\ orders' = orders \cup {o}
              /\ creates'[r].row = o
              /\ o.status = "PENDING" /\ o.version = 1
              /\ o.user_id = creates[r].user
              /\ o.client_token = creates[r].token
              /\ o.items = creates[r].items
              /\ o.total_amount = C29_Total(creates[r].items)
       /\ (creates[r].pc = "inserted" /\ creates'[r].pc = "done") =>
            /\ creates'[r].resp.code = 201
            /\ creates'[r].resp.body = mapRowToOrder(creates[r].row)
            /\ creates[r].row \in orders
            /\ creates'[r].resp.body.status = "PENDING"
            /\ creates'[r].resp.body.version = 1
            /\ creates'[r].resp.body.user_id = creates[r].user
            /\ creates'[r].resp.body.total_amount = C29_Total(creates[r].items)]_vars

\* two orders were created, one of them with two items and one with a quantity
\* above one, and each was returned to its creator
C29_Witness ==
  /\ ordersCreatedTotal = 2
  /\ \A r \in {1, 2} :
       /\ creates[r].pc = "done" /\ creates[r].resp.code = 201
       /\ creates[r].resp.body.items = creates[r].items
       /\ creates[r].resp.body.user_id = creates[r].user
  /\ Len(creates[1].items) = 2 /\ creates[1].resp.body.total_amount = 300
  /\ creates[2].items[1].quantity = 2 /\ creates[2].resp.body.total_amount = 1000

\* C30: every step keeps every stored order: the row with that id is still
\* there afterwards, with the same total_amount, items, client_token and user_id.
C30_OrderFieldsImmutable ==
  [][\A o \in orders :
       \E n \in orders' :
         /\ n.id = o.id
         /\ n.total_amount = o.total_amount
         /\ n.items = o.items
         /\ n.client_token = o.client_token
         /\ n.user_id = o.user_id]_vars

\* order 1 was replayed, set to CANCELLED by the admin route and to PAID by the
\* webhook, a payment for it was initiated and a payment was cancelled; both
\* seeded orders still have the fields they were created with
C30_Witness ==
  /\ creates[1].pc = "done" /\ creates[1].resp.code = 201
  /\ updates[1].pc = "done" /\ updates[1].resp.code = 200 /\ updates[1].id = 1
  /\ \E j \in DOMAIN hooks : hooks[j].pc = "done" /\ hooks[j].wrote
  /\ inits[1].pc = "done" /\ inits[1].code = 200
  /\ cancels[1].pc = "done" /\ cancels[1].code = 200
  /\ \E o \in orders :
       /\ o.id = 1 /\ o.status = "PAID" /\ o.version = 2
       /\ o.total_amount = SeedOrder.total_amount /\ o.items = SeedOrder.items
       /\ o.client_token = SeedOrder.client_token /\ o.user_id = SeedOrder.user_id
  /\ SeedOrder2 \in orders

\* C31: the step of an initiation that looks for an existing payment hands one
\* out, creating none, exactly when the order has a PENDING payment whose expiry
\* time has not passed; a PENDING payment past its expiry is not handed out.
C31_ReuseOnlyUnexpiredPending ==
  [][\A r \in DOMAIN inits :
       (inits[r].pc = "pending" /\ inits'[r].pc \in {"done", "insert"}
          /\ inits'[r].code # 500) =>
         LET live == {q \in pendingPayments(inits[r].order_id) : q.expires_at > now}
         IN IF live # {}
            THEN /\ inits'[r].pc = "done"
                 /\ inits'[r].payment_id \in {q.payment_id : q \in live}
                 /\ payments' = payments
            ELSE inits'[r].pc = "insert"]_vars

\* C32: the write of a cancel sets payment P to CANCELLED only if P is PENDING at
\* the moment of that write; a cancel that meets a non-PENDING payment, at its
\* check or at its write, leaves the payments as they are and is not answered 200.
C32_CancelOnlyWhilePending ==
  [][\A r \in DOMAIN cancels :
       (cancels[r].pc # "done" /\ cancels'[r].pc = "done") =>
         LET pending == \E q \in payments :
                          q.payment_id = cancels'[r].payment_id /\ q.status = "PENDING"
         IN /\ payments' # payments => pending
            /\ ~pending => (payments' = payments /\ cancels'[r].code # 200)]_vars

\* C33: the expiry sweep that follows an apply for order O changes only payments
\* that are PENDING, past their expiry and of order O, and sets them to CANCELLED;
\* every other payment stays as it is, and apply returns without an error
\* whether the sweep worked or failed.
C33_SweepOnlyOwnExpiredPending ==
  [][\A j \in DOMAIN hooks :
       hooks[j].pc = "sweep" /\ hooks'[j] # hooks[j] =>
         /\ \A q \in payments :
              \/ q \in payments'
              \/ /\ q.status = "PENDING"
                 /\ q.expires_at < now
                 /\ q.order_id = hooks[j].event.order_id
                 /\ [q EXCEPT !.status = "CANCELLED",
                              !.failure_reason = "Payment expired"] \in payments'
         /\ hooks'[j].pc = "done"
         /\ ~hooks'[j].threw]_vars

\* C34: whenever a webhook request starts apply, its timestamp header denotes a
\* time within 300 seconds of the current time: no header value the gates admit
\* for that body at that moment is absent, not a number or further away.
C34_ApplyOnlyWithTimelyTimestamp ==
  [][\A j \in DOMAIN hooks :
       (hookFree(j) /\ hooks'[j].pc = "select") =>
         \A ts \in TsInputs(now) : \A sig \in SigInputs(ts, hooks'[j].event) :
           webhookGate(sig, ts, hooks'[j].event, now) = 0 =>
             /\ ts.kind = "int"
             /\ ts.sec - (now \div 1000) <= ToleranceSec
             /\ (now \div 1000) - ts.sec <= ToleranceSec]_vars

\* C35: a webhook request that has both headers and a timely timestamp but a
\* signature that is not the expected digest, whatever its length or content, is
\* answered 401 (signature invalid), never with the generic 500.
C35_BadSignatureIs401 ==
  [][\A j \in DOMAIN hooks :
       (hookFree(j) /\ hooks'[j] # hooks[j] /\ hooks'[j].pc = "done") =>
         \A body \in EventInputs : \A ts \in TsInputs(now) : \A sig \in SigInputs(ts, body) :
           (/\ webhookGate(sig, ts, body, now) = hooks'[j].code
            /\ sig.kind # "absent" /\ ts.kind # "absent"
            /\ ~timestampTooOld(ts, now)
            /\ (sig.len # DigestLen \/ sig.digest # Hmac(Secret, << ts, body >>)))
             => hooks'[j].code = 401]_vars

\* C36: a call get(k) returns the value of the latest set(k, v, ttl) while the
\* current time has not passed the time of that set plus ttl; once it has, or
\* when k was never set or was deleted since, get returns nothing and the map
\* holds no entry for k afterwards.
C36_GetFollowsLatestSet ==
  [][(now' = now /\ cacheCall'.op = "get") =>
       LET k == cacheCall'.key
       IN IF k \in DOMAIN lastSet /\ ~(now > lastSet[k].at + lastSet[k].ttl)
          THEN cacheCall'.result = lastSet[k].value
          ELSE cacheCall'.result = Null /\ k \notin DOMAIN cache']_vars

\* C38: a cleanup step removes exactly the entries whose expiry has passed and
\* leaves the others as they are; and at every moment get and has answer the
\* same for every key on the cache, where cleanup ran at arbitrary points, as on
\* the map that went through the same set/get/has/delete calls without cleanup.
C38_CleanupUnobservable ==
  [][/\ \A k \in DOMAIN cache' \cup DOMAIN uncleaned' :
          /\ CacheService_hit(cache', k, now') = CacheService_hit(uncleaned', k, now')
          /\ CacheService_hit(cache', k, now') => cache'[k].value = uncleaned'[k].value
     /\ (now' = now /\ cacheCall'.op = "cleanup") =>
          /\ DOMAIN cache' = {k \in DOMAIN cache : ~(now > cache[k].expiry)}
          /\ \A k \in DOMAIN cache' : cache'[k] = cache[k]]_vars

\* cleanup ran while the map held an expired entry and a live one: the expired
\* entry is gone from the cache and still in the map without cleanup
C38_Witness ==
  /\ cacheCall.op = "cleanup"
  /\ \E k \in DOMAIN uncleaned : k \notin DOMAIN cache /\ now > uncleaned[k].expiry
  /\ \E k \in DOMAIN cache : ~(now > cache[k].expiry)

\* the age of the answer of a finished detail read: the time since the store
\* read that produced the row it carries
C37_Age(r) == now - readAt.req[r]

\* C37 (as stated): a detail read that finds no live cache entry reads the store,
\* answers with the row read and caches it for the viewer's scope for 30 s, a
\* not-found is not cached, and no 200 answer is older than 30 seconds relative
\* to the store read that produced it.
C37_NoAnswerOlderThan30s ==
  [][\A r \in DOMAIN gets :
       (gets[r].pc # "done" /\ gets'[r].pc = "done" /\ gets'[r].resp.code = 200)
         => now' - readAt'.req[r] <= DetailTtlMs]_vars

\* C37 (amended): a detail read that finds no live cache entry reads the store;
\* when the read returns a row the request answers with it and caches it under
\* the viewer's key with expiry 30 s after that moment; a not-found leaves the
\* cache as it is; and an answer from the cache carries the entry's row and is
\* given no later than the entry's expiry, so no later than 30 seconds after the
\* entry was cached.
C37_CachedFor30sFromCaching ==
  [][\A r \in DOMAIN gets :
       /\ (gets[r].pc = "idle" /\ gets'[r].pc # "idle") =>
            LET k == cacheKey(gets'[r].id, gets'[r].user)
            IN IF k \in DOMAIN cache /\ now <= cache[k].expiry
               THEN /\ gets'[r].pc = "done"
                    /\ gets'[r].resp = [code |-> 200, body |-> cache[k].value]
                    /\ now - (cache[k].expiry - DetailTtlMs) <= DetailTtlMs
               ELSE gets'[r].pc = "query" /\ k \notin DOMAIN cache'
       /\ (gets[r].pc = "fetched" /\ gets'[r].pc = "done") =>
            LET k == cacheKey(gets[r].id, gets[r].user)
            IN IF gets[r].row # NoRow
               THEN /\ gets'[r].resp = [code |-> 200, body |-> gets[r].row]
                    /\ cache'[k] = [value |-> gets[r].row, expiry |-> now + 30000]
                    /\ \A x \in DOMAIN cache' \ {k} : x \in DOMAIN cache /\ cache'[x] = cache[x]
               ELSE gets'[r].resp.code = 404 /\ cache' = cache
       /\ (gets[r].pc = "query" /\ gets'[r].pc = "fetched") =>
            gets'[r].row \in {NoRow} \cup {mapRowToOrder(o) : o \in orders}]_vars

\* a read was answered from an entry cached 20 s earlier, 40 s after the store
\* read that produced the entry
C37_Witness ==
  \E r \in DOMAIN gets :
    /\ gets[r].pc = "done" /\ gets[r].resp.code = 200 /\ gets[r].row = NoRow
    /\ C37_Age(r) > DetailTtlMs
    /\ LET k == cacheKey(gets[r].id, gets[r].user)
       IN k \in DOMAIN cache /\ now <= cache[k].expiry /\ cache[k].value = gets[r].resp.body

\* the listing just answered is page 2 of the request whose page 1 was answered
\* just before it, on the same table
C39_PageTwoAfterPageOne ==
  /\ lists.pc = "done" /\ lists.code = 200
  /\ lists.prev.user = lists.user /\ lists.prev.status = lists.status
  /\ lists.prev.q = lists.q /\ lists.prev.limit = lists.limit
  /\ lists.prev.page = 1 /\ lists.page = 2

\* C39: on a fixed table, with fixed filters and limit, pages 1 and 2 together
\* carry every matching order they have room for exactly once, newest first,
\* equal creation times ordered by id: nothing is repeated or skipped.
C39_PagingExactlyOnce ==
  C39_PageTwoAfterPageOne =>
    LET both == lists.prev.orders \o lists.orders
        M == whereOrders(lists.user, role(lists.user), lists.status, lists.q)
        room == IF 2 * lists.limit < Cardinality(M) THEN 2 * lists.limit
                ELSE Cardinality(M)
    IN /\ Len(both) = room
       /\ \A i, j \in 1..Len(both) : i < j => both[i].id # both[j].id
       /\ room = Cardinality(M) => {both[i].id : i \in 1..Len(both)} = {o.id : o \in M}
       /\ \A i, j \in 1..Len(both) : i < j =>
            \/ both[i].created_at > both[j].created_at
            \/ both[i].created_at = both[j].created_at /\ both[i].id < both[j].id

\* C40: the order a create request is answered with belongs to the caller, also
\* when the client_token it sent was first used by another user.
C40_ReturnedOrderIsCallers ==
  \A r \in 1..MaxCreate :
    (creates[r].pc = "done" /\ creates[r].resp.code \in {200, 201})
      => creates[r].resp.body.user_id = creates[r].user

====
